---- MODULE Spec2Model ----
(***************************************************************************)
(* The particle-filter search of SMC.py (class SMC: __init__ and infer)    *)
(* over the program graphs of programGraph.py (class ProgramGraph and      *)
(* ProgramPointerNetwork.repeatedlySample).                                *)
(*                                                                         *)
(* Program graphs are Python objects: ProgramGraph defines neither __eq__  *)
(* nor __hash__, so the dictionaries keyed by graphs (_distance and        *)
(* sampleFrequency) are keyed by object identity.  The model keeps a heap  *)
(* of graph objects, heap[id] being the frozenset of nodes of object id.   *)
(* DSL objects (the nodes) are values with structural equality; they are   *)
(* the numbers 1..MaxNode and children(n) gives their dependencies.        *)
(*                                                                         *)
(* Real numbers are kept in fixed point, in thousandths (log-weights and   *)
(* distances); the result of math.exp is kept by its order alone, with the *)
(* underflow of IEEE doubles to 0.0.                                       *)
(***************************************************************************)
EXTENDS Integers, Sequences, FiniteSets, TLC

VARIABLES
    pc,               \* position: "new", "assertFail", "constructed", "loop", "propose", "done", "KeyError"
    args,             \* the arguments the constructor was called with
    self,             \* the fields of the SMC object (<<>> while unset)
    maximumLength,    \* argument of infer
    loopIndex,        \* iterations of `for _ in range(maximumLength)` started
    roundsDone,       \* iterations that ran to their end (line 72)
    heap,             \* the ProgramGraph objects allocated so far: id -> node set
    objectEncodings,  \* _objectEncodings: object -> embedding
    encoderCalls,     \* invocations of model.objectEncoder per object
    distanceCache,    \* _distance: graph object id -> distance
    distanceCalls,    \* invocations of model.distance per graph object id
    estimate,         \* what model.distance has returned so far: node set -> distance
    population,       \* list of Particle: [graph, frequency, distance]
    sampleFrequency,  \* the tally, a dict in insertion order: [graph, count]
    pidx,             \* index of the next particle of `for p in population`
    oracleCalls,      \* calls of model.repeatedlySample
    allTerminal,      \* every draw of every oracle call so far was RETURN
    drawTally,        \* this round: node set -> number of samples that gave it
    sawEmptyTally,    \* some round ended with an empty tally
    ps,               \* the categorical distribution of the last resample
    output,           \* the list infer returned (<<>> before)
    tpc,              \* gradientStepTrace: "off", "loop" (line 169), "returned"
    goalGraph,        \* gradientStepTrace: the nodes of goalGraph
    currentGraph,     \* gradientStepTrace: the nodes of currentGraph
    onPolicyGraph,    \* gradientStepTrace: the nodes of the last onPolicyGraph
    steps,            \* gradientStepTrace: executions of line 241
    distanceBefore    \* currentGraph.distanceOracle(goalGraph) before the last step

vars == <<pc, args, self, maximumLength, loopIndex, roundsDone, heap,
          objectEncodings, encoderCalls, distanceCache, distanceCalls, estimate,
          population, sampleFrequency, pidx, oracleCalls, allTerminal, drawTally,
          sawEmptyTally, ps, output,
          tpc, goalGraph, currentGraph, onPolicyGraph, steps, distanceBefore>>

\* The variables of gradientStepTrace, and those of SMC.
traceVars == <<tpc, goalGraph, currentGraph, onPolicyGraph, steps, distanceBefore>>

smcVars == <<pc, args, self, maximumLength, loopIndex, roundsDone, heap,
             objectEncodings, encoderCalls, distanceCache, distanceCalls, estimate,
             population, sampleFrequency, pidx, oracleCalls, allTerminal, drawTally,
             sawEmptyTally, ps, output>>

----------------------------------------------------------------------------
(* Bounds of the model *)

MaxParticles == 3

MaxLength == 2

MaxNode == 2

MaxGoalNode == 5

----------------------------------------------------------------------------
(* Values *)

\* The DSL objects a line of code can denote.
Nodes == 1..MaxNode

\* n.children(): the objects come in chains of three, 1 <- 2 <- 3, 4 <- 5 <- 6:
\* the first of a chain is a leaf, each other is built from the one before.
children(n) == IF n % 3 = 1 THEN {} ELSE {n - 1}

\* decoder.sample gave None, or DSL.parseLine gave None: the draw is dropped.
NoLine == -1

\* The line holds 'RETURN': repeatedlySample appends None, the terminal marker.
RETURN == 0

\* The values model.distance may return, in thousandths (a ReLU output: >= 0).
Distances == {0, 800000, 900000}

\* fitnessWeight values given to the constructor (2 is the default).
FitnessWeights == {1, 2}

\* Below -745.133 math.exp gives 0.0 (IEEE double underflow), in thousandths.
ExpUnderflow == 745133

EmptyFun == [x \in {} |-> 0]

RECURSIVE SumSeq(_)
SumSeq(s) == IF s = <<>> THEN 0 ELSE Head(s) + SumSeq(Tail(s))


RECURSIVE MaxSeq(_)
MaxSeq(s) == IF Len(s) = 1 THEN s[1]
             ELSE LET m == MaxSeq(Tail(s)) IN IF s[1] >= m THEN s[1] ELSE m

----------------------------------------------------------------------------
(* ProgramGraph *)

\* ProgramGraph.extend: the node set of the new graph object.
extend(nodes, newNode) == nodes \cup {newNode}

\* Every node of the set has all its children in the set.
ChildClosed(nodes) == \A n \in nodes : children(n) \subseteq nodes

----------------------------------------------------------------------------
(* ProgramPointerNetwork.repeatedlySample *)

\* A pointer token of a decoded line can only name an object in scope.
LinesUnresolved(objectsInScope) == Nodes

\* The objects a decoded line can parse to: its pointer tokens are replaced
\* by objectsInScope[t.i], so the children of the object are in scope.
Lines(objectsInScope) == {n \in Nodes : children(n) \subseteq objectsInScope}

\* What one iteration of the sampling loop can come to.
DrawOutcomes(objectsInScope) == {NoLine, RETURN} \cup Lines(objectsInScope)

IsSample(d) == d # NoLine

\* The list repeatedlySample returns for the draws of its n_samples iterations.
repeatedlySample(draws) == SelectSeq(draws, IsSample)

----------------------------------------------------------------------------
(* The caches of infer.  st is [heap, enc, calls, tally]. *)

\* The embedding the encoder returns for o: a fresh value at every invocation
\* (the number of the invocation), so that a recomputation shows.
Encoded(st, o) == st.calls[o] + 1

\* objectEncoding(o), lines 16-20.
objectEncoding(st, o) ==
    IF o \in DOMAIN st.enc THEN st
    ELSE [st EXCEPT !.enc = (o :> Encoded(st, o)) @@ st.enc,
                    !.calls = [st.calls EXCEPT ![o] = @ + 1]]

\* scopeEncoding(g), lines 22-27: objectEncoding of every object of g.
scopeEncoding(st, nodes) ==
    LET miss == nodes \ DOMAIN st.enc
    IN [st EXCEPT !.enc = [o \in miss |-> Encoded(st, o)] @@ st.enc,
                  !.calls = [o \in DOMAIN st.calls |->
                                IF o \in miss THEN st.calls[o] + 1 ELSE st.calls[o]]]

----------------------------------------------------------------------------
(* The tally of one round *)

\* A tally kept as a list: every sample is an entry of its own.
TallyAddNoMerge(tally, g) == Append(tally, [graph |-> g, count |-> 1])

\* sampleFrequency[newGraph] = sampleFrequency.get(newGraph, 0) + 1, line 55.
\* The key is the graph object: equality and hash of ProgramGraph are identity.
TallyAdd(tally, g) ==
    IF \E i \in 1..Len(tally) : tally[i].graph = g
    THEN [i \in 1..Len(tally) |->
            IF tally[i].graph = g THEN [tally[i] EXCEPT !.count = @ + 1] ELSE tally[i]]
    ELSE Append(tally, [graph |-> g, count |-> 1])

\* A loop body that leaves the new object to be encoded later.
LoopBodyNoEncoding(st, g, newObject) ==
    LET newHeap == IF newObject = RETURN THEN st.heap
                   ELSE Append(st.heap, extend(st.heap[g], newObject))
        newGraph == IF newObject = RETURN THEN g ELSE Len(newHeap)
    IN [st EXCEPT !.heap = newHeap, !.tally = TallyAdd(st.tally, newGraph)]

\* The body of the loop over the oracle's samples, lines 52-55.
LoopBody(st, g, newObject) ==
    LET st1 == IF newObject # RETURN THEN objectEncoding(st, newObject) ELSE st
        newHeap == IF newObject = RETURN THEN st1.heap
                   ELSE Append(st1.heap, extend(st1.heap[g], newObject))
        newGraph == IF newObject = RETURN THEN g ELSE Len(newHeap)
    IN [st1 EXCEPT !.heap = newHeap, !.tally = TallyAdd(st1.tally, newGraph)]

RECURSIVE ProcessSamples(_, _, _)
ProcessSamples(st, g, samples) ==
    IF samples = <<>> THEN st
    ELSE ProcessSamples(LoopBody(st, g, Head(samples)), g, Tail(samples))

----------------------------------------------------------------------------
(* Weights and resampling, lines 62-72 *)

\* math.log of a frequency, in thousandths.
LogMilli(f) == <<0, 693, 1099, 1386, 1609, 1792, 1946, 2079>>[f]

LogWeightPlus(frequency, distance) == LogMilli(frequency) + distance

\* math.log(p.frequency) - p.distance, line 62.
LogWeight(frequency, distance) == LogMilli(frequency) - distance

\* math.exp(x) for x <= 0 in thousandths, kept by its order: 0 where the
\* double underflows, else a positive number strictly increasing with x.
Exp(x) == IF x < -ExpUnderflow THEN 0 ELSE ExpUnderflow + x + 1

\* Lines 64-65: ps[i] = exp(lw[i] - max(lw)) / sum.  The quotient is kept as
\* numerator and (common) denominator.
Softmax(logWeights) ==
    IF logWeights = <<>> THEN <<>>
    ELSE LET m == MaxSeq(logWeights)
             es == [i \in 1..Len(logWeights) |-> Exp(logWeights[i] - m)]
             s == SumSeq(es)
         IN [i \in 1..Len(logWeights) |-> [num |-> es[i], den |-> s]]

\* Counts that need not add up to n: each slot drawn on its own.
MultinomialLossy(n, pvals) ==
    {c \in [1..Len(pvals) -> 0..n] :
        /\ SumSeq(c) <= n
        /\ \A i \in 1..Len(pvals) : pvals[i].num = 0 => c[i] = 0}

\* A draw that insists on counts adding up to n: none exists for an empty pvals.
MultinomialStrict(n, pvals) ==
    {c \in [1..Len(pvals) -> 0..n] :
        /\ SumSeq(c) = n
        /\ \A i \in 1..Len(pvals) : pvals[i].num = 0 => c[i] = 0}

\* np.random.multinomial(n, pvals), line 66: one joint draw; the counts add up
\* to n, an outcome of probability 0 is never drawn, and for an empty pvals
\* the result is the empty array.
Multinomial(n, pvals) ==
    {c \in [1..Len(pvals) -> 0..n] :
        /\ pvals # <<>> => SumSeq(c) = n
        /\ \A i \in 1..Len(pvals) : pvals[i].num = 0 => c[i] = 0}

\* Lines 68-72: the particles with a positive count, with their new frequency.
RECURSIVE Survivors(_, _)
Survivors(samples, counts) ==
    IF samples = <<>> THEN <<>>
    ELSE LET rest == Survivors(Tail(samples), Tail(counts))
         IN IF Head(counts) > 0
            THEN <<[Head(samples) EXCEPT !.frequency = Head(counts)]>> \o rest
            ELSE rest

----------------------------------------------------------------------------
(* SMC.__init__, lines 4-9 *)

PreconditionNonNegative(particles) == particles >= 0

\* assert particles > 0, line 6.
Precondition(particles) == particles > 0

Unset == [particles |-> 0, fitnessWeight |-> 0, model |-> "none"]

Init ==
    /\ pc = "new"
    /\ args = Unset
    /\ self = Unset
    /\ maximumLength = 0
    /\ loopIndex = 0
    /\ roundsDone = 0
    /\ heap = <<>>
    /\ objectEncodings = EmptyFun
    /\ encoderCalls = [o \in Nodes |-> 0]
    /\ distanceCache = EmptyFun
    /\ distanceCalls = EmptyFun
    /\ estimate = EmptyFun
    /\ population = <<>>
    /\ sampleFrequency = <<>>
    /\ pidx = 0
    /\ oracleCalls = 0
    /\ allTerminal = TRUE
    /\ drawTally = EmptyFun
    /\ sawEmptyTally = FALSE
    /\ ps = <<>>
    /\ output = <<>>
    /\ tpc = "off"
    /\ goalGraph = {}
    /\ currentGraph = {}
    /\ onPolicyGraph = {}
    /\ steps = 0
    /\ distanceBefore = 0

\* SMC(model, particles=..., fitnessWeight=...)
Construct ==
    /\ UNCHANGED traceVars
    /\ pc = "new"
    /\ \E particles \in (-1)..MaxParticles, fitnessWeight \in FitnessWeights :
         /\ args' = [particles |-> particles, fitnessWeight |-> fitnessWeight,
                     model |-> "model"]
         /\ IF Precondition(particles)
            THEN /\ self' = args'
                 /\ pc' = "constructed"
            ELSE /\ self' = self
                 /\ pc' = "assertFail"
    /\ UNCHANGED <<maximumLength, loopIndex, roundsDone, heap, objectEncodings,
                   encoderCalls, distanceCache, distanceCalls, estimate, population,
                   sampleFrequency, pidx, oracleCalls, allTerminal, drawTally,
                   sawEmptyTally, ps, output>>

----------------------------------------------------------------------------
(* SMC.infer, lines 11-74 *)

\* infer(spec, maximumLength) up to line 45: the caches are created empty and
\* the population is the one particle of the empty graph, whose construction
\* calls distance(graph) (line 42).
Infer ==
    /\ UNCHANGED traceVars
    /\ pc = "constructed"
    /\ \E len \in 0..MaxLength, d \in Distances :
         /\ maximumLength' = len
         /\ heap' = <<{}>>
         /\ estimate' = ({} :> d)
         /\ distanceCache' = (1 :> d)
         /\ distanceCalls' = (1 :> 1)
         /\ population' = <<[graph |-> 1, frequency |-> self.particles, distance |-> d]>>
    /\ objectEncodings' = EmptyFun
    /\ encoderCalls' = [o \in Nodes |-> 0]
    /\ loopIndex' = 0
    /\ roundsDone' = 0
    /\ pc' = "loop"
    /\ UNCHANGED <<args, self, sampleFrequency, pidx, oracleCalls, allTerminal,
                   drawTally, sawEmptyTally, ps, output>>

\* A loop that runs once more than range(maximumLength).
LoopContinuesInclusive == loopIndex <= maximumLength

\* A loop that also stops once a single particle is left.
LoopContinuesUntilConverged == loopIndex < maximumLength /\ Len(population) > 1

\* for _ in range(maximumLength), line 47.
LoopContinues == loopIndex < maximumLength

\* Lines 47-48: the next round begins with an empty tally.
StartRound ==
    /\ UNCHANGED traceVars
    /\ pc = "loop"
    /\ LoopContinues
    /\ loopIndex' = loopIndex + 1
    /\ sampleFrequency' = <<>>
    /\ pidx' = 1
    /\ drawTally' = EmptyFun
    /\ pc' = "propose"
    /\ UNCHANGED <<args, self, maximumLength, roundsDone, heap, objectEncodings,
                   encoderCalls, distanceCache, distanceCalls, estimate, population,
                   oracleCalls, allTerminal, sawEmptyTally, ps, output>>

\* The node sets the samples of one oracle call lead to, counted.
RECURSIVE Drawn(_, _, _)
Drawn(tally, nodes, samples) ==
    IF samples = <<>> THEN tally
    ELSE LET ns == IF Head(samples) = RETURN THEN nodes ELSE extend(nodes, Head(samples))
             n == IF ns \in DOMAIN tally THEN tally[ns] ELSE 0
         IN Drawn((ns :> n + 1) @@ tally, nodes, Tail(samples))

\* Lines 49-55 for one particle p: the call of model.repeatedlySample (which
\* looks up the embedding of every object in scope, line 357) and the loop
\* over the samples it returns.
Propose ==
    /\ UNCHANGED traceVars
    /\ pc = "propose"
    /\ pidx <= Len(population)
    /\ LET p == population[pidx]
           objectsInScope == heap[p.graph]
       IN IF ~(objectsInScope \subseteq DOMAIN objectEncodings)
          THEN /\ pc' = "KeyError"
               /\ UNCHANGED <<heap, objectEncodings, encoderCalls, sampleFrequency,
                              pidx, oracleCalls, allTerminal, drawTally>>
          ELSE \E draws \in [1..p.frequency -> DrawOutcomes(objectsInScope)] :
                 LET st == ProcessSamples([heap |-> heap, enc |-> objectEncodings,
                                           calls |-> encoderCalls,
                                           tally |-> sampleFrequency],
                                          p.graph, repeatedlySample(draws))
                 IN /\ heap' = st.heap
                    /\ objectEncodings' = st.enc
                    /\ encoderCalls' = st.calls
                    /\ sampleFrequency' = st.tally
                    /\ pidx' = pidx + 1
                    /\ oracleCalls' = oracleCalls + 1
                    /\ allTerminal' = (allTerminal /\ \A i \in 1..p.frequency : draws[i] = RETURN)
                    /\ drawTally' = Drawn(drawTally, objectsInScope, repeatedlySample(draws))
                    /\ pc' = pc
    /\ UNCHANGED <<args, self, maximumLength, loopIndex, roundsDone, distanceCache,
                   distanceCalls, estimate, population, sawEmptyTally, ps, output>>

\* The graphs of the tally that miss in _distance: distance(g) is computed for
\* them when their Particle is built (line 42).
Uncached(tally) == {tally[i].graph : i \in 1..Len(tally)} \ DOMAIN distanceCache

\* model.distance (programGraph.py, lines 104-111) is a function of the
\* embeddings of the objects in scope, and these are fixed once cached: the
\* estimates so far, extended by a value for each node set not yet estimated.
Estimates(nodeSets) ==
    {e @@ estimate : e \in [nodeSets \ DOMAIN estimate -> Distances]}

\* Lines 57-72: the particles of the tally, their weights, the multinomial
\* draw and the new population.
Resample ==
    /\ UNCHANGED traceVars
    /\ pc = "propose"
    /\ pidx > Len(population)
    /\ \E est \in Estimates({heap[g] : g \in Uncached(sampleFrequency)}) :
         LET d == [g \in Uncached(sampleFrequency) |-> est[heap[g]]]
             dc == d @@ distanceCache
             tally == sampleFrequency
             st == [heap |-> heap, enc |-> objectEncodings, calls |-> encoderCalls,
                    tally |-> tally]
             missing == UNION {heap[g] : g \in DOMAIN d}
             st1 == scopeEncoding(st, missing)
             samples == [i \in 1..Len(tally) |->
                            [graph |-> tally[i].graph, frequency |-> tally[i].count,
                             distance |-> dc[tally[i].graph]]]
             logWeights == [i \in 1..Len(samples) |->
                               LogWeight(samples[i].frequency, samples[i].distance)]
             pvals == Softmax(logWeights)
         IN /\ estimate' = est
            /\ distanceCache' = dc
            /\ distanceCalls' = [g \in DOMAIN d |-> 1] @@ distanceCalls
            /\ objectEncodings' = st1.enc
            /\ encoderCalls' = st1.calls
            /\ ps' = pvals
            /\ sawEmptyTally' = (sawEmptyTally \/ tally = <<>>)
            /\ IF Multinomial(self.particles, pvals) = {}
               THEN /\ pc' = "ValueError"
                    /\ UNCHANGED <<population, roundsDone>>
               ELSE \E sampleFrequencies \in Multinomial(self.particles, pvals) :
                      /\ population' = Survivors(samples, sampleFrequencies)
                      /\ roundsDone' = roundsDone + 1
                      /\ pc' = "loop"
    /\ UNCHANGED <<args, self, maximumLength, loopIndex, heap, sampleFrequency,
                   pidx, oracleCalls, allTerminal, drawTally, output>>

\* return [p.graph for p in population], line 74.
Return ==
    /\ UNCHANGED traceVars
    /\ pc = "loop"
    /\ ~LoopContinues
    /\ output' = [i \in 1..Len(population) |-> population[i].graph]
    /\ pc' = "done"
    /\ UNCHANGED <<args, self, maximumLength, loopIndex, roundsDone, heap,
                   objectEncodings, encoderCalls, distanceCache, distanceCalls, estimate,
                   population, sampleFrequency, pidx, oracleCalls, allTerminal, drawTally,
                   sawEmptyTally, ps>>

Next == Construct \/ Infer \/ StartRound \/ Propose \/ Resample \/ Return

Spec == Init /\ [][Next]_vars

----------------------------------------------------------------------------
(* ProgramGraph.policyOracle and distanceOracle, programGraph.py lines 59-66 *)

\* A policy oracle that offers every object that can be added, in the goal or not.
policyOracleAddable(nodes, targetNodes, universe) ==
    {n \in universe \ nodes : children(n) \subseteq nodes}

\* self.policyOracle(targetGraph): the nodes of the target missing in self
\* whose children are all in self.  (universe is not used: the nodes come
\* from the target.)
policyOracle(nodes, targetNodes, universe) ==
    {n \in targetNodes \ nodes : children(n) \subseteq nodes}

\* self.distanceOracle(targetGraph): len(self.nodes ^ targetGraph.nodes).
distanceOracle(nodes, targetNodes) ==
    Cardinality((nodes \ targetNodes) \cup (targetNodes \ nodes))

----------------------------------------------------------------------------
(* ProgramPointerNetwork.gradientStepTrace, programGraph.py lines 156-241 *)

\* The objects a goal graph is made of.
GoalNodes == 1..MaxGoalNode

\* Lines 205-212: the on-policy sample.  decoder.sample or DSL.parseLine may
\* give None; otherwise the line parses to an object whose pointer tokens
\* name objects in scope, and onPolicyGraph is currentGraph extended by it.
\* currentGraph itself is left alone.
OnPolicyGraphs(nodes) ==
    {nodes} \cup {extend(nodes, n) : n \in {m \in GoalNodes : children(m) \subseteq nodes}}

\* gradientStepTrace(optimizer, spec, goalGraph) up to line 167.
InitTrace ==
    /\ pc = "new"
    /\ args = Unset
    /\ self = Unset
    /\ maximumLength = 0
    /\ loopIndex = 0
    /\ roundsDone = 0
    /\ heap = <<>>
    /\ objectEncodings = EmptyFun
    /\ encoderCalls = [o \in Nodes |-> 0]
    /\ distanceCache = EmptyFun
    /\ distanceCalls = EmptyFun
    /\ estimate = EmptyFun
    /\ population = <<>>
    /\ sampleFrequency = <<>>
    /\ pidx = 0
    /\ oracleCalls = 0
    /\ allTerminal = TRUE
    /\ drawTally = EmptyFun
    /\ sawEmptyTally = FALSE
    /\ ps = <<>>
    /\ output = <<>>
    /\ tpc = "loop"
    /\ goalGraph \in SUBSET GoalNodes
    /\ currentGraph = {}
    /\ onPolicyGraph = {}
    /\ steps = 0
    /\ distanceBefore = 0

\* optimalMoves = list(currentGraph.policyOracle(goalGraph)), line 170.
optimalMoves == policyOracle(currentGraph, goalGraph, GoalNodes)

\* One iteration of `while True` with optimal moves left, lines 170-241: the
\* on-policy sample, then the move drawn by np.random.choice and the
\* extension of currentGraph by it.
TraceMove ==
    /\ tpc = "loop"
    /\ optimalMoves # {}
    /\ onPolicyGraph' \in OnPolicyGraphs(currentGraph)
    /\ \E move \in optimalMoves :
         currentGraph' = extend(currentGraph, move)
    /\ distanceBefore' = distanceOracle(currentGraph, goalGraph)
    /\ steps' = steps + 1
    /\ UNCHANGED <<tpc, goalGraph>>
    /\ UNCHANGED smcVars

\* The iteration without an optimal move, lines 170-234: finalMove is set,
\* the on-policy sample is taken and the function returns.
TraceFinal ==
    /\ tpc = "loop"
    /\ optimalMoves = {}
    /\ onPolicyGraph' \in OnPolicyGraphs(currentGraph)
    /\ tpc' = "returned"
    /\ UNCHANGED <<goalGraph, currentGraph, steps, distanceBefore>>
    /\ UNCHANGED smcVars

NextTrace == TraceMove \/ TraceFinal

SpecTrace == InitTrace /\ [][NextTrace]_vars

----------------------------------------------------------------------------
(* Properties *)

Frequencies(particles) == [i \in 1..Len(particles) |-> particles[i].frequency]

Counts(tally) == [i \in 1..Len(tally) |-> tally[i].count]

\* infer is between two rounds, or has returned.
RoundBoundary == pc \in {"loop", "done"}

\* C1, as claimed: before round 1 and after every completed round the
\* frequencies of the population add up to the configured particles, whatever
\* the oracle returned.
C1_PopulationSizeAlways ==
    RoundBoundary => SumSeq(Frequencies(population)) = self.particles

\* C1, amended: before round 1 and after every completed round whose tally was
\* not empty the frequencies of the population add up to particles; after a
\* round whose tally was empty the population is empty.
C1_PopulationSize ==
    RoundBoundary =>
        IF roundsDone > 0 /\ sampleFrequency = <<>>
        THEN population = <<>>
        ELSE SumSeq(Frequencies(population)) = self.particles

\* A round has ended in which the oracle returned fewer samples than it was
\* asked for, and two particles survived the resample.
C1_Witness ==
    /\ pc = "loop"
    /\ roundsDone > 0
    /\ sampleFrequency # <<>>
    /\ SumSeq(Counts(sampleFrequency)) < self.particles
    /\ Len(population) = 2
    /\ SumSeq(Frequencies(population)) = self.particles

\* The node sets of the graphs of the tally.
TallySets == {heap[sampleFrequency[i].graph] : i \in 1..Len(sampleFrequency)}

\* C2: while the tally of a round is built, every node set some sample led to
\* has exactly one entry in the tally, whose count is the number of samples
\* that led to it; so the graphs of the tally are pairwise distinct node sets
\* and the counts add up to the number of samples returned.
C2_Deduplication ==
    pc = "propose" =>
        /\ TallySets = DOMAIN drawTally
        /\ \A i, j \in 1..Len(sampleFrequency) :
              heap[sampleFrequency[i].graph] = heap[sampleFrequency[j].graph] => i = j
        /\ \A i \in 1..Len(sampleFrequency) :
              sampleFrequency[i].count = drawTally[heap[sampleFrequency[i].graph]]

\* Invocations of model.distance for graphs of the node set ns.
RECURSIVE DistanceInvocations(_, _)
DistanceInvocations(ns, ids) ==
    IF ids = {} THEN 0
    ELSE LET g == CHOOSE x \in ids : TRUE
         IN (IF heap[g] = ns THEN distanceCalls[g] ELSE 0)
            + DistanceInvocations(ns, ids \ {g})

\* C3: the object encoder is invoked at most once per object and the distance
\* estimator at most once per graph (node set); an entry stays in its cache
\* and holds the value of the first invocation.
C3_Memoization ==
    /\ \A o \in Nodes :
          /\ encoderCalls[o] <= 1
          /\ encoderCalls[o] = 1 => (o \in DOMAIN objectEncodings /\ objectEncodings[o] = 1)
    /\ \A g \in DOMAIN distanceCalls :
          g \in DOMAIN distanceCache /\ distanceCache[g] = estimate[heap[g]]
    /\ \A ns \in DOMAIN estimate :
          DistanceInvocations(ns, DOMAIN distanceCalls) <= 1

\* C4: infer runs exactly maximumLength rounds and then returns: between
\* rounds it goes on while fewer than maximumLength rounds are done and
\* returns otherwise, and no round ends in an error.
C4_ExactRounds ==
    /\ roundsDone <= maximumLength
    /\ pc \notin {"KeyError", "ValueError"}
    /\ pc = "loop" /\ roundsDone < maximumLength => ENABLED StartRound /\ ~ENABLED Return
    /\ pc = "loop" /\ roundsDone = maximumLength => ENABLED Return /\ ~ENABLED StartRound
    /\ pc = "done" => roundsDone = maximumLength /\ loopIndex = maximumLength

\* infer has returned after MaxLength rounds although a single particle was
\* left after the first of them.
C4_Witness ==
    /\ pc = "done"
    /\ maximumLength = MaxLength
    /\ roundsDone = MaxLength
    /\ Len(output) = 1
    /\ oracleCalls = MaxLength

\* C5: with maximumLength = 0 infer returns the list of the one empty graph,
\* the population being the initial particle (empty graph, frequency
\* particles), and the oracle is never called.
C5_ZeroRounds ==
    pc = "done" /\ maximumLength = 0 =>
        /\ output = <<1>>
        /\ heap = <<{}>>
        /\ population = <<[graph |-> 1, frequency |-> self.particles,
                           distance |-> distanceCache[1]]>>
        /\ oracleCalls = 0
        /\ roundsDone = 0

C5_Witness ==
    /\ pc = "done"
    /\ maximumLength = 0
    /\ self.particles = MaxParticles
    /\ output = <<1>>

\* C6: once a round has ended with an empty tally (the oracle returned no
\* sample for any particle) the population is empty, no error is raised, and
\* the list infer returns is empty.
C6_EmptyTallyTolerated ==
    sawEmptyTally =>
        /\ pc \in {"loop", "propose", "done"}
        /\ population = <<>>
        /\ pc = "done" => output = <<>>

\* infer has returned after a first round with an empty tally and a second
\* round over the empty population.
C6_Witness ==
    /\ pc = "done"
    /\ sawEmptyTally
    /\ roundsDone = MaxLength
    /\ oracleCalls = 1
    /\ output = <<>>

\* C7: if every draw of every oracle call was the terminal marker, the
\* population between rounds is the one particle (empty graph, frequency
\* particles) and infer returns the list of the one empty graph.
C7_AllTerminal ==
    allTerminal /\ RoundBoundary =>
        /\ population = <<[graph |-> 1, frequency |-> self.particles,
                           distance |-> distanceCache[1]]>>
        /\ heap[1] = {}
        /\ pc = "done" => output = <<1>>

\* infer has returned after MaxLength rounds of MaxParticles terminal markers.
C7_Witness ==
    /\ pc = "done"
    /\ allTerminal
    /\ roundsDone = MaxLength
    /\ oracleCalls = MaxLength
    /\ self.particles = MaxParticles
    /\ sampleFrequency = <<[graph |-> 1, count |-> MaxParticles]>>

\* The distribution of the last resample goes with the tally it was made of.
Resampled == RoundBoundary /\ roundsDone > 0

Candidates == 1..Len(sampleFrequency)

Distance(i) == distanceCache[sampleFrequency[i].graph]

\* C8, as claimed: of two candidates of the tally with different node sets and
\* the same frequency, the one of strictly smaller distance has the strictly
\* greater probability in the distribution handed to the multinomial draw.
C8_WeightOrderingStrict ==
    Resampled =>
        \A i, j \in Candidates :
            /\ heap[sampleFrequency[i].graph] # heap[sampleFrequency[j].graph]
            /\ sampleFrequency[i].count = sampleFrequency[j].count
            /\ Distance(i) < Distance(j)
            => ps[i].num > ps[j].num

\* C8, amended: of two candidates of the tally with the same frequency, the
\* one of strictly smaller distance never has the smaller probability, and
\* has the strictly greater one unless the weight of the other underflowed
\* to 0.
C8_WeightOrdering ==
    Resampled =>
        /\ Len(ps) = Len(sampleFrequency)
        /\ \A i, j \in Candidates :
              /\ ps[i].den = ps[j].den
              /\ ps[i].den > 0
              /\ (i # j
                  /\ sampleFrequency[i].count = sampleFrequency[j].count
                  /\ Distance(i) < Distance(j))
                 => /\ ps[i].num >= ps[j].num
                    /\ ps[j].num > 0 => ps[i].num > ps[j].num

\* A tally of three node sets in which two candidates of the same frequency
\* and different distances both have a positive probability.
C8_Witness ==
    /\ Resampled
    /\ Cardinality(TallySets) = 3
    /\ \E i, j \in Candidates :
          /\ sampleFrequency[i].count = sampleFrequency[j].count
          /\ Distance(i) < Distance(j)
          /\ ps[j].num > 0
          /\ ps[i].num > ps[j].num

\* C9: a constructor call with particles <= 0 fails at the assertion and
\* leaves the object unset (model included), so that infer never runs; with
\* particles > 0 it stores particles, fitnessWeight and model as given.
C9_Construction ==
    pc # "new" =>
        IF args.particles <= 0
        THEN /\ pc = "assertFail"
             /\ self = Unset
             /\ heap = <<>> /\ population = <<>> /\ oracleCalls = 0
        ELSE /\ pc # "assertFail"
             /\ self = args

\* The constructor was called with the default particles = 0.
C9_Witness ==
    /\ pc = "assertFail"
    /\ args.particles = 0
    /\ args.model = "model"
    /\ self.model = "none"

C11_ScopeEncoded ==
    /\ pc # "KeyError"
    /\ pc = "propose" =>
          /\ \A i \in 1..Len(population) :
                heap[population[i].graph] \subseteq DOMAIN objectEncodings
          /\ \A i \in 1..Len(sampleFrequency) :
                heap[sampleFrequency[i].graph] \subseteq DOMAIN objectEncodings

\* In the second round the oracle was called for a particle whose graph holds
\* an object, and the sample it gave put a graph of two objects in the tally.
C11_Witness ==
    /\ pc = "propose"
    /\ loopIndex = 2
    /\ pidx > 1
    /\ heap[population[pidx - 1].graph] # {}
    /\ \E i \in 1..Len(sampleFrequency) :
          Cardinality(heap[sampleFrequency[i].graph]) = 2

\* C12: on the imitation trace of gradientStepTrace the current graph is a
\* subset of the goal and holds the children of each of its nodes; each step
\* adds one node and lowers distanceOracle(goal) by 1, so that after k steps
\* it is |goal| - k and there are at most |goal| steps; at the final move
\* policyOracle yields nothing, and the current graph is the goal if the
\* goal is child-closed.
C12_ImitationTrace ==
    tpc # "off" =>
        /\ currentGraph \subseteq goalGraph
        /\ ChildClosed(currentGraph)
        /\ Cardinality(currentGraph) = steps
        /\ steps <= Cardinality(goalGraph)
        /\ distanceOracle(currentGraph, goalGraph) = Cardinality(goalGraph) - steps
        /\ steps > 0 => distanceOracle(currentGraph, goalGraph) = distanceBefore - 1
        /\ tpc = "loop" => (ENABLED TraceMove \/ ENABLED TraceFinal)
        /\ tpc = "returned" =>
              /\ policyOracle(currentGraph, goalGraph, GoalNodes) = {}
              /\ ChildClosed(goalGraph) => currentGraph = goalGraph

\* The trace of a child-closed goal of four nodes in two chains has returned
\* after four steps, the last on-policy graph lying outside the goal.
C12_Witness ==
    /\ tpc = "returned"
    /\ goalGraph = {1, 2, 4, 5}
    /\ currentGraph = goalGraph
    /\ steps = 4
    /\ ~(onPolicyGraph \subseteq goalGraph)

\* The trace of a goal that is not child-closed has returned short of it.
C12_WitnessOpenGoal ==
    /\ tpc = "returned"
    /\ ~ChildClosed(goalGraph)
    /\ currentGraph # goalGraph
    /\ steps > 0

====
